---------------------------- MODULE Spec2Model ----------------------------
(***************************************************************************)
(* Model of the Taekwondo kick meter (src/final.py): the impact detector,  *)
(* the kick classifiers and the polling / reconnect loops of main().       *)
(*                                                                         *)
(* Units.  Weights are integers in units of 10^-5 kg (4.0 kg = 400000),    *)
(* forces in units of 10^-7 N (weight * 981), times in ticks of 50 ms      *)
(* (1.0 s = 20 ticks), speeds in units of 0.1 m/s.  A percentage is an     *)
(* exact fraction <<num, den>> with den > 0.                               *)
(***************************************************************************)
EXTENDS Integers, Sequences, FiniteSets, TLC

(* ------------------------- configuration constants -------------------- *)

KICK_THRESHOLD_KG == 400000
KICK_COOLDOWN == 20
FSR_MIN == -1
FSR_MAX == 1873
WARNING_THRESHOLD == 50
FSR_CHANNELS == <<0, 1, 3>>

(* ------------------------------- bounds -------------------------------- *)

\* Reading of time.time() when the program starts, in ticks.  The real value
\* is the Unix time; all that matters is that it exceeds every cooldown.
BootTime == 200
\* The clock of the main specification runs from BootTime to BootTime + MaxElapsed.
MaxElapsed == 40
\* One step of the clock in the main specification (0.5 s).
TickStep == 10
\* Longest weight sequence fed to the detector in the sequence specification.
MaxLen == 5

\* Load-cell readings (grams) the HX711 can deliver in the main specification.
Grams == {0, 4000, 4500}
\* Load-cell readings (grams) of the sequence specification.
SeqGrams == {0, 2000, 3000, 4500}
\* Sample spacings of the sequence specification: 50 ms and 1 s.
SeqDts == {1, 20}
\* Cooldowns of the sequence specification: the program's, and 2.0 s.
SeqCooldowns == {KICK_COOLDOWN, 2 * KICK_COOLDOWN}
\* Last-kick times of the sequence specification, the first sample being taken
\* at BootTime: 10 s before, 50 ms before, at the same instant.
SeqPriors == {BootTime - 200, BootTime - 1, BootTime}
\* Raw ADC counts an FSR channel can deliver.
RawFsr == {-5, 935, 936}

(* --------------------------- pure functions ---------------------------- *)

Min(a, b) == IF a <= b THEN a ELSE b
Max(a, b) == IF a >= b THEN a ELSE b

\* p < q, p <= q for fractions with positive denominators
FracLess(p, q) == p[1] * q[2] < q[1] * p[2]
FracMax(p, q) == IF FracLess(p, q) THEN q ELSE p

FracMin(p, q) == IF FracLess(q, p) THEN q ELSE p
FracEq(p, q) == p[1] * q[2] = q[1] * p[2]

\* neither the raw value nor the result is clamped
fsr_percentage_q_NoClamp(raw, f_min, f_max) ==
    IF f_max <= f_min
    THEN <<0, 1>>
    ELSE <<(raw[1] - f_min * raw[2]) * 100, (f_max - f_min) * raw[2]>>

\* the result is left on the scale 0..1
fsr_percentage_q_Unscaled(raw, f_min, f_max) ==
    IF f_max <= f_min
    THEN <<0, 1>>
    ELSE LET r == FracMax(<<f_min, 1>>, FracMin(<<f_max, 1>>, raw))
             percent == <<r[1] - f_min * r[2], (f_max - f_min) * r[2]>>
         IN  FracMax(<<0, 1>>, FracMin(<<100, 1>>, percent))

\* fsr_percentage on a raw value given as a fraction (the function takes any
\* float, its own output included); f_min and f_max are integers
fsr_percentage_q(raw, f_min, f_max) ==
    IF f_max <= f_min
    THEN <<0, 1>>
    ELSE LET r == FracMax(<<f_min, 1>>, FracMin(<<f_max, 1>>, raw))
             percent == <<(r[1] - f_min * r[2]) * 100, (f_max - f_min) * r[2]>>
         IN  FracMax(<<0, 1>>, FracMin(<<100, 1>>, percent))

\* fsr_percentage on an integer ADC count
fsr_percentage(raw, f_min, f_max) == fsr_percentage_q(<<raw, 1>>, f_min, f_max)

\* adc_ok: FALSE when adc.read_adc raises; raws: the three channel readings
read_fsr_sensors(adc_ok, raws) ==
    IF ~adc_ok
    THEN <<0, 1>>
    ELSE LET percentages == [i \in 1..Len(FSR_CHANNELS) |->
                                fsr_percentage(raws[i], FSR_MIN, FSR_MAX)]
         IN  FracMax(percentages[1], FracMax(percentages[2], percentages[3]))

read_load_cell_fast_G98(hx_ok, grams) ==
    IF ~hx_ok
    THEN [weight_kg |-> 0, force_newtons |-> 0]
    ELSE LET w == grams * 100
         IN  [weight_kg |-> w, force_newtons |-> w * 980]

\* hx_ok: FALSE when hx.get_weight_mean raises; grams: the mean it returns
read_load_cell_fast(hx_ok, grams) ==
    IF ~hx_ok
    THEN [weight_kg |-> 0, force_newtons |-> 0]
    ELSE LET w == grams * 100
         IN  [weight_kg |-> w, force_newtons |-> w * 981]

detect_impact_NoCooldown(history, last, current_time, w, cd) ==
    LET a == Append(history, w)
        h == IF Len(a) > 3 THEN Tail(a) ELSE a
    IN  IF Len(h) < 2
        THEN [force_history |-> h, last_kick_time |-> last, ret |-> FALSE]
        ELSE IF w >= KICK_THRESHOLD_KG /\ w > h[Len(h) - 1]
        THEN [force_history |-> h, last_kick_time |-> current_time, ret |-> TRUE]
        ELSE [force_history |-> h, last_kick_time |-> last, ret |-> FALSE]

detect_impact_NoRisingEdge(history, last, current_time, w, cd) ==
    LET a == Append(history, w)
        h == IF Len(a) > 3 THEN Tail(a) ELSE a
    IN  IF Len(h) < 2
        THEN [force_history |-> h, last_kick_time |-> last, ret |-> FALSE]
        ELSE IF current_time - last < cd
        THEN [force_history |-> h, last_kick_time |-> last, ret |-> FALSE]
        ELSE IF w >= KICK_THRESHOLD_KG
        THEN [force_history |-> h, last_kick_time |-> current_time, ret |-> TRUE]
        ELSE [force_history |-> h, last_kick_time |-> last, ret |-> FALSE]

detect_impact_StrictThreshold(history, last, current_time, w, cd) ==
    LET a == Append(history, w)
        h == IF Len(a) > 3 THEN Tail(a) ELSE a
    IN  IF Len(h) < 2
        THEN [force_history |-> h, last_kick_time |-> last, ret |-> FALSE]
        ELSE IF current_time - last < cd
        THEN [force_history |-> h, last_kick_time |-> last, ret |-> FALSE]
        ELSE IF w > KICK_THRESHOLD_KG /\ w > h[Len(h) - 1]
        THEN [force_history |-> h, last_kick_time |-> current_time, ret |-> TRUE]
        ELSE [force_history |-> h, last_kick_time |-> last, ret |-> FALSE]

\* detect_impact on the globals (history, last) at clock reading current_time.
\* cd is the cooldown: main() always runs with KICK_COOLDOWN.
detect_impact(history, last, current_time, w, cd) ==
    LET a == Append(history, w)
        h == IF Len(a) > 3 THEN Tail(a) ELSE a
    IN  IF Len(h) < 2
        THEN [force_history |-> h, last_kick_time |-> last, ret |-> FALSE]
        ELSE IF current_time - last < cd
        THEN [force_history |-> h, last_kick_time |-> last, ret |-> FALSE]
        ELSE IF w >= KICK_THRESHOLD_KG /\ w > h[Len(h) - 1]
        THEN [force_history |-> h, last_kick_time |-> current_time, ret |-> TRUE]
        ELSE [force_history |-> h, last_kick_time |-> last, ret |-> FALSE]

\* the threshold itself still counts as higher accuracy
determine_accuracy_Strict(max_fsr_percent) ==
    IF FracLess(<<WARNING_THRESHOLD, 1>>, max_fsr_percent)
    THEN "lower accuracy"
    ELSE "higher accuracy"

determine_accuracy(max_fsr_percent) ==
    IF ~FracLess(max_fsr_percent, <<WARNING_THRESHOLD, 1>>)
    THEN "lower accuracy"
    ELSE "higher accuracy"

\* the Medium band open at 6.5 kg
determine_kick_type_OpenMedium(w) ==
    IF 400000 <= w /\ w < 500000 THEN "Light Kick"
    ELSE IF 500000 <= w /\ w < 650000 THEN "Medium Kick"
    ELSE IF w >= 650000 THEN "Strong Kick"
    ELSE "No or very light contact"

determine_kick_type(w) ==
    IF 400000 <= w /\ w < 500000 THEN "Light Kick"
    ELSE IF 500000 <= w /\ w <= 650000 THEN "Medium Kick"
    ELSE IF w > 650000 THEN "Strong Kick"
    ELSE "No or very light contact"

\* What the peripheral can return to client.read_gatt_char(CHAR_UUID).
Replies ==
    { [k |-> "read_error",   v |-> 0],     \* the read raises (BleakError, disconnect)
      [k |-> "not_utf8",     v |-> 0],     \* value.decode raises
      [k |-> "not_json",     v |-> 0],     \* json.loads raises
      [k |-> "json_list",    v |-> 0],     \* valid JSON, no .get method
      [k |-> "no_speed",     v |-> 0],     \* an object without "speed"
      [k |-> "speed_num",    v |-> 35],    \* {"speed": 3.5}
      [k |-> "speed_numstr", v |-> 35],    \* {"speed": "3.5"}
      [k |-> "speed_text",   v |-> 0],     \* {"speed": "fast"}
      [k |-> "speed_null",   v |-> 0] }    \* {"speed": null}
NoReply == [k |-> "pending", v |-> 0]

\* lines 314-320: decode, parse and convert the reply; ok = FALSE when any
\* step raises and the handler sets speed = 0.0
parse_speed(r) ==
    IF r.k \in {"read_error", "not_utf8", "not_json", "json_list",
                "speed_text", "speed_null"}
    THEN [ok |-> FALSE, speed |-> 0]
    ELSE IF r.k = "no_speed"
    THEN [ok |-> TRUE, speed |-> 0]
    ELSE [ok |-> TRUE, speed |-> r.v]

(* ------------------------------- state --------------------------------- *)

VARIABLES
    pc,               \* where main() stands
    force_history,    \* global, line 54
    last_kick_time,   \* global, line 55
    weight_kg, force_newtons,           \* locals of the polling loop, line 302
    impact,           \* value of detect_impact(weight_kg) at line 305
    kick_weight, kick_force,            \* lines 307-308
    speed, max_fsr_percent, accuracy, kick_type, payload,
    connected,        \* client.is_connected
    reply,            \* answer of the pending read_gatt_char, NoReply while awaited
    now,              \* the clock, time.time()
    interrupted,      \* an operator interrupt was delivered
    fire_times,       \* history: clock readings of the calls that returned True
    ev,               \* history: the operations done since the last fire
    errs,             \* history: error categories (1-4) met so far; 5: link lost in mid-session
    cooldown, prior, seq, times, outs,  \* sequence specification: inputs and results
    gpio,             \* the GPIO lines: "none", "acquired" or "released"
    calib,            \* calibration: the HX711 settings and the calibration file
    calc,             \* function specification: the last fsr_percentage call
    load              \* held-load specification: the load resting on the cell (g)

vars == <<pc, force_history, last_kick_time, weight_kg, force_newtons, impact,
          kick_weight, kick_force, speed, max_fsr_percent, accuracy, kick_type,
          payload, connected, reply, now, interrupted, fire_times, ev, errs,
          cooldown, prior, seq, times, outs, gpio, calib, calc, load>>

detector == <<force_history, last_kick_time>>
locals   == <<weight_kg, force_newtons, impact, kick_weight, kick_force>>
enrich   == <<speed, max_fsr_percent, accuracy, kick_type, payload>>
seqvars  == <<cooldown, prior, seq, times, outs>>
side     == <<calib, calc, load>>

NoPayload ==
    [force_of_kick_in_newton |-> 0, pressure_at_edges_in_percentage |-> <<0, 1>>,
     accuracy |-> "", speed_of_kick_in_meters_per_second |-> 0,
     timestamp_utc |-> 0, timestamp_local |-> 0, kick_detection_state |-> ""]

\* Calibration state: what the HX711 holds (set_offset / zero, set_scale_ratio),
\* the calibration file, and the inputs of the calibration dialogue.  A ratio
\* is the fraction <<reading, known weight>>.
NoFile == [present |-> FALSE, valid |-> FALSE, offset |-> 0, scale_ratio |-> <<1, 1>>]
NoCalib ==
    [file |-> NoFile,
     hx_offset_set |-> FALSE, hx_ratio_set |-> FALSE, hx_ratio |-> <<1, 1>>,
     ran |-> FALSE, wrote |-> FALSE, provider_error |-> FALSE,
     known_given |-> FALSE, known |-> 0, reading |-> 0]

NoCalc == [raw |-> <<0, 1>>, f_min |-> 0, f_max |-> 0, out |-> <<0, 1>>, again |-> <<0, 1>>]

NoEvent == [log |-> <<>>, w |-> 0, f |-> 0, hist |-> <<>>, last |-> 0,
            speed_failed |-> FALSE, status |-> ""]

\* The event of the last fire is still being enriched or uploaded.
EventOpen == ev.log # <<>> /\ ev.log[Len(ev.log)] # "upload"

Logged(op) == IF ev.log = <<>> THEN ev ELSE [ev EXCEPT !.log = Append(@, op)]

\* Positions inside the "async with BleakClient" block.
InnerPcs == {"poll", "detect", "speed", "speed_wait", "fsr", "stamp", "upload", "sleep"}

\* Positions of main(), from its first line to the interrupt.
MainPcs == {"boot", "scan", "connect", "retry_sleep", "error_sleep"} \cup InnerPcs
\* Positions at which main() is suspended in an await inside the client block:
\* the characteristic read (line 314) and the sleep (line 363).  The event
\* loop runs only there, so client.is_connected changes only there.
AwaitPcs == {"speed_wait", "sleep"}

Init ==
    /\ pc = "init"
    /\ gpio = "none" /\ calib = NoCalib /\ calc = NoCalc /\ load = 0
    /\ force_history = <<>>
    /\ last_kick_time = 0
    /\ weight_kg = 0 /\ force_newtons = 0 /\ impact = FALSE
    /\ kick_weight = 0 /\ kick_force = 0
    /\ speed = 0 /\ max_fsr_percent = <<0, 1>> /\ accuracy = "" /\ kick_type = ""
    /\ payload = NoPayload
    /\ connected = FALSE
    /\ reply = NoReply
    /\ now = BootTime
    /\ interrupted = FALSE
    /\ fire_times = <<>>
    /\ ev = NoEvent
    /\ errs = {}
    /\ cooldown = KICK_COOLDOWN /\ prior = 0
    /\ seq = <<>> /\ times = <<>> /\ outs = <<>>

(* ------------------------------ actions -------------------------------- *)

\* lines 37-40: GPIO.setmode and the HX711 on pins 5 and 6
GpioSetup ==
    /\ pc = "init"
    /\ pc' = "adc_init"
    /\ gpio' = "acquired"
    /\ UNCHANGED <<detector, locals, enrich, connected, reply, now, interrupted,
                   fire_times, ev, errs, seqvars, side>>

\* line 43: the ADS1015 on the I2C bus; the constructor returns, or raises at
\* module level, where nothing catches it, and the process ends
AdcInit ==
    /\ pc = "adc_init"
    /\ \E ok \in BOOLEAN : pc' = IF ok THEN "boot" ELSE "crashed"
    /\ UNCHANGED <<detector, locals, enrich, connected, reply, now, interrupted,
                   fire_times, ev, errs, seqvars, gpio, side>>

\* lines 265-266: load the calibration, or run the calibration dialogue (the
\* calibration specification follows these two lines step by step)
Startup ==
    /\ pc = "boot"
    /\ pc' = "scan"
    /\ UNCHANGED <<detector, locals, enrich, connected, reply, now, interrupted,
                   fire_times, ev, errs, seqvars, gpio, side>>

Scan_Unhandled ==
    /\ pc = "scan"
    /\ \E outcome \in {"found", "not_found", "scan_error"} :
          /\ pc' = CASE outcome = "found"      -> "connect"
                     [] outcome = "not_found"  -> "retry_sleep"
                     [] outcome = "scan_error" -> "exited"
          /\ errs' = IF outcome = "found" THEN errs ELSE errs \cup {2}
    /\ UNCHANGED <<detector, locals, enrich, connected, reply, now, interrupted,
                   fire_times, ev, seqvars, gpio, side>>

\* lines 271-286: one scan; the device is found, is not found, or the scan raises
Scan ==
    /\ pc = "scan"
    /\ \E outcome \in {"found", "not_found", "scan_error"} :
          /\ pc' = CASE outcome = "found"      -> "connect"
                     [] outcome = "not_found"  -> "retry_sleep"
                     [] outcome = "scan_error" -> "error_sleep"
          /\ errs' = IF outcome = "found" THEN errs ELSE errs \cup {2}
    /\ UNCHANGED <<detector, locals, enrich, connected, reply, now, interrupted,
                   fire_times, ev, seqvars, gpio, side>>

\* lines 282-284: "Retrying in 5 seconds", sleep(5), continue
RetrySleep ==
    /\ pc = "retry_sleep"
    /\ pc' = "scan"
    /\ UNCHANGED <<detector, locals, enrich, connected, reply, now, interrupted,
                   fire_times, ev, errs, seqvars, gpio, side>>

\* lines 369-372: the outer handler, sleep(5), next turn of the outer loop
ErrorSleep ==
    /\ pc = "error_sleep"
    /\ pc' = "scan"
    /\ UNCHANGED <<detector, locals, enrich, connected, reply, now, interrupted,
                   fire_times, ev, errs, seqvars, gpio, side>>

\* every new connection starts with a fresh detector
Connect_ResetsDetector ==
    /\ pc = "connect"
    /\ \E ok \in BOOLEAN :
          /\ pc' = IF ok THEN "poll" ELSE "error_sleep"
          /\ connected' = ok
          /\ errs' = IF ok THEN errs ELSE errs \cup {2}
    /\ force_history' = <<>>
    /\ last_kick_time' = 0
    /\ UNCHANGED <<locals, enrich, reply, now, interrupted,
                   fire_times, ev, seqvars, gpio, side>>

\* line 289: entering "async with BleakClient(...)"; the connect succeeds or raises
Connect ==
    /\ pc = "connect"
    /\ \E ok \in BOOLEAN :
          /\ pc' = IF ok THEN "poll" ELSE "error_sleep"
          /\ connected' = ok
          /\ errs' = IF ok THEN errs ELSE errs \cup {2}
    /\ UNCHANGED <<detector, locals, enrich, reply, now, interrupted,
                   fire_times, ev, seqvars, gpio, side>>

\* environment: the BLE link drops while the client block is open; the flag
\* client.is_connected falls while main() is suspended.  5 marks in errs that
\* the flag fell in mid-session.
LinkDrop ==
    /\ pc \in AwaitPcs
    /\ connected
    /\ connected' = FALSE
    /\ errs' = errs \cup {2, 5}
    /\ UNCHANGED <<pc, detector, locals, enrich, reply, now, interrupted,
                   fire_times, ev, seqvars, gpio, side>>

\* the flag is down, yet the loop goes on with the same handle, no rediscovery
ConnectionLost_Reread ==
    /\ pc = "poll"
    /\ ~connected
    /\ pc' = "poll"
    /\ connected' = TRUE
    /\ UNCHANGED <<detector, locals, enrich, reply, now, interrupted,
                   fire_times, ev, errs, seqvars, gpio, side>>

\* lines 297-299 and the exit of the "async with" block (line 289): the flag is
\* down, the loop breaks; leaving the block disconnects, which may raise into
\* the outer handler
ConnectionLost ==
    /\ pc = "poll"
    /\ ~connected
    /\ \E exit_ok \in BOOLEAN :
          pc' = IF exit_ok THEN "scan" ELSE "error_sleep"
    /\ UNCHANGED <<detector, locals, enrich, connected, reply, now, interrupted,
                   fire_times, ev, errs, seqvars, gpio, side>>

\* lines 297 and 301-302: the flag is up, one load-cell sample is taken.  The
\* locals of the previous turn are dead here (each is assigned before its next
\* use), so they are cleared.
Sample ==
    /\ pc = "poll"
    /\ connected
    /\ \E hx_ok \in BOOLEAN, g \in Grams :
          LET r == read_load_cell_fast(hx_ok, g)
          IN  /\ weight_kg' = r.weight_kg
              /\ force_newtons' = r.force_newtons
              /\ errs' = IF hx_ok THEN errs ELSE errs \cup {1}
    /\ pc' = "detect"
    /\ impact' = FALSE /\ kick_weight' = 0 /\ kick_force' = 0
    /\ speed' = 0 /\ max_fsr_percent' = <<0, 1>> /\ accuracy' = "" /\ kick_type' = ""
    /\ payload' = NoPayload
    /\ ev' = IF EventOpen THEN Logged("sample") ELSE NoEvent
    /\ UNCHANGED <<detector, connected, reply, now, interrupted, fire_times, seqvars, gpio, side>>

\* lines 305-310: detect_impact(weight_kg); on a fire the sample is captured
Detect ==
    /\ pc = "detect"
    /\ LET d == detect_impact(force_history, last_kick_time, now, weight_kg,
                              KICK_COOLDOWN)
       IN  /\ force_history' = d.force_history
           /\ last_kick_time' = d.last_kick_time
           /\ impact' = d.ret
           /\ IF d.ret
              THEN /\ kick_weight' = weight_kg
                   /\ kick_force' = force_newtons
                   /\ pc' = "speed"
                   /\ fire_times' = Append(fire_times, now)
                   /\ ev' = IF EventOpen
                            THEN Logged("detect")
                            ELSE [log |-> <<"fire">>, w |-> weight_kg,
                                  f |-> force_newtons, hist |-> d.force_history,
                                  last |-> d.last_kick_time, speed_failed |-> FALSE,
                                  status |-> ""]
              ELSE /\ pc' = "sleep"
                   /\ ev' = IF EventOpen THEN Logged("detect") ELSE ev
                   /\ UNCHANGED <<kick_weight, kick_force, fire_times>>
    /\ UNCHANGED <<weight_kg, force_newtons, enrich, connected, reply, now,
                   interrupted, errs, seqvars, gpio, side>>

ReadSpeedStart_Background ==
    /\ pc = "speed"
    /\ pc' = "sleep"
    /\ reply' = NoReply
    /\ UNCHANGED <<detector, locals, enrich, connected, now, interrupted,
                   fire_times, ev, errs, seqvars, gpio, side>>

\* line 314: the characteristic read is issued and awaited (no timeout is set)
ReadSpeedStart ==
    /\ pc = "speed"
    /\ pc' = "speed_wait"
    /\ reply' = NoReply
    /\ UNCHANGED <<detector, locals, enrich, connected, now, interrupted,
                   fire_times, ev, errs, seqvars, gpio, side>>

\* environment: the peripheral answers, or the stack reports an error; with the
\* link down only an error can come back
PeripheralReply ==
    /\ pc = "speed_wait"
    /\ reply = NoReply
    /\ \E r \in Replies :
          /\ connected \/ r.k = "read_error"
          /\ reply' = r
    /\ UNCHANGED <<pc, detector, locals, enrich, connected, now, interrupted,
                   fire_times, ev, errs, seqvars, gpio, side>>

ReadSpeed_DropOnError ==
    /\ pc = "speed_wait"
    /\ reply # NoReply
    /\ LET p == parse_speed(reply)
       IN  /\ speed' = p.speed
           /\ errs' = IF p.ok THEN errs ELSE errs \cup {3}
           /\ ev' = [Logged("speed") EXCEPT !.speed_failed = ~p.ok]
           /\ pc' = IF p.ok THEN "fsr" ELSE "sleep"
    /\ reply' = NoReply
    /\ UNCHANGED <<detector, locals, max_fsr_percent, accuracy, kick_type, payload,
                   connected, now, interrupted, fire_times, seqvars, gpio, side>>

\* lines 314-320: the await returns; decode and parse, or speed = 0.0 on any error
ReadSpeed ==
    /\ pc = "speed_wait"
    /\ reply # NoReply
    /\ LET p == parse_speed(reply)
       IN  /\ speed' = p.speed
           /\ errs' = IF p.ok THEN errs ELSE errs \cup {3}
           /\ ev' = [Logged("speed") EXCEPT !.speed_failed = ~p.ok]
    /\ pc' = "fsr"
    /\ reply' = NoReply
    /\ UNCHANGED <<detector, locals, max_fsr_percent, accuracy, kick_type, payload,
                   connected, now, interrupted, fire_times, seqvars, gpio, side>>

\* lines 323-327: the FSR read and the two classifications
ReadFsr ==
    /\ pc = "fsr"
    /\ \E adc_ok \in BOOLEAN, raws \in [1..3 -> RawFsr] :
          LET m == read_fsr_sensors(adc_ok, raws)
          IN  /\ max_fsr_percent' = m
              /\ accuracy' = determine_accuracy(m)
              /\ errs' = IF adc_ok THEN errs ELSE errs \cup {1}
    /\ kick_type' = determine_kick_type(kick_weight)
    /\ pc' = "stamp"
    /\ ev' = Logged("fsr")
    /\ UNCHANGED <<detector, locals, speed, payload, connected, reply, now,
                   interrupted, fire_times, seqvars, gpio, side>>

Assemble_Reread ==
    /\ pc = "stamp"
    /\ \E g \in Grams :
          payload' = [force_of_kick_in_newton |->
                          read_load_cell_fast(TRUE, g).force_newtons,
                      pressure_at_edges_in_percentage |-> max_fsr_percent,
                      accuracy |-> accuracy,
                      speed_of_kick_in_meters_per_second |-> speed,
                      timestamp_utc |-> now,
                      timestamp_local |-> now,
                      kick_detection_state |-> "kick_detected"]
    /\ pc' = "upload"
    /\ ev' = Logged("stamp")
    /\ UNCHANGED <<detector, locals, speed, max_fsr_percent, accuracy, kick_type,
                   connected, reply, now, interrupted, fire_times, errs, seqvars, gpio, side>>

\* lines 330-350: the two timestamps and the record
Assemble ==
    /\ pc = "stamp"
    /\ payload' = [force_of_kick_in_newton |-> kick_force,
                   pressure_at_edges_in_percentage |-> max_fsr_percent,
                   accuracy |-> accuracy,
                   speed_of_kick_in_meters_per_second |-> speed,
                   timestamp_utc |-> now,
                   timestamp_local |-> now,
                   kick_detection_state |-> "kick_detected"]
    /\ pc' = "upload"
    /\ ev' = Logged("stamp")
    /\ UNCHANGED <<detector, locals, speed, max_fsr_percent, accuracy, kick_type,
                   connected, reply, now, interrupted, fire_times, errs, seqvars, gpio, side>>

Upload_FailureRearms ==
    /\ pc = "upload"
    /\ \E outcome \in {"200", "non200", "exception"} :
          /\ errs' = IF outcome = "200" THEN errs ELSE errs \cup {4}
          /\ ev' = [Logged("upload") EXCEPT !.status = outcome]
          /\ last_kick_time' = IF outcome = "200" THEN last_kick_time ELSE 0
    /\ pc' = "sleep"
    /\ UNCHANGED <<force_history, locals, enrich, connected, reply, now, interrupted,
                   fire_times, seqvars, gpio, side>>

\* lines 353-360: one POST; status 200, another status, or a transport error
Upload ==
    /\ pc = "upload"
    /\ \E outcome \in {"200", "non200", "exception"} :
          /\ errs' = IF outcome = "200" THEN errs ELSE errs \cup {4}
          /\ ev' = [Logged("upload") EXCEPT !.status = outcome]
    /\ pc' = "sleep"
    /\ UNCHANGED <<detector, locals, enrich, connected, reply, now, interrupted,
                   fire_times, seqvars, gpio, side>>

\* line 363: sleep(0.05), next turn of the polling loop.  The handler of lines
\* 365-367 has no action: every failure modelled here is caught closer to its
\* source (lines 176, 157, 318, 359), so none reaches it.
Sleep ==
    /\ pc = "sleep"
    /\ pc' = "poll"
    /\ UNCHANGED <<detector, locals, enrich, connected, reply, now, interrupted,
                   fire_times, ev, errs, seqvars, gpio, side>>

\* environment: time passes; successive readings of time.time() never decrease
Tick ==
    /\ pc \in MainPcs
    /\ now + TickStep <= BootTime + MaxElapsed
    /\ now' = now + TickStep
    /\ UNCHANGED <<pc, detector, locals, enrich, connected, reply, interrupted,
                   fire_times, ev, errs, seqvars, gpio, side>>

\* lines 379-383: the operator interrupt.  Inside asyncio.run(main()) it is
\* caught by the handler of line 381, which runs GPIO.cleanup(); at module
\* level (lines 37-43) nothing catches it.
Interrupt ==
    /\ pc \in MainPcs \cup {"init", "adc_init"}
    /\ pc' = "exited"
    /\ interrupted' = TRUE
    /\ gpio' = IF pc \in MainPcs THEN "released" ELSE gpio
    /\ UNCHANGED <<detector, locals, enrich, connected, reply, now,
                   fire_times, ev, errs, seqvars, side>>

\* The steps main() itself takes.
Program ==
    \/ GpioSetup \/ AdcInit
    \/ Startup \/ Scan \/ RetrySleep \/ ErrorSleep \/ Connect \/ ConnectionLost
    \/ Sample \/ Detect \/ ReadSpeedStart \/ ReadSpeed \/ ReadFsr \/ Assemble
    \/ Upload \/ Sleep

Next ==
    \/ GpioSetup \/ AdcInit
    \/ Startup \/ Scan \/ RetrySleep \/ ErrorSleep \/ Connect \/ ConnectionLost
    \/ Sample \/ Detect \/ ReadSpeedStart \/ ReadSpeed \/ ReadFsr \/ Assemble
    \/ Upload \/ Sleep
    \/ LinkDrop \/ PeripheralReply \/ Tick \/ Interrupt

Spec == Init /\ [][Next]_vars

(* ----------------------- sequence specification ------------------------ *)
(* The detector alone: a weight sequence is fed sample by sample through   *)
(* lines 302-308, from an empty history, for every prior last-kick time,   *)
(* sample spacing and cooldown of the bounded sets.                        *)

SeqInit ==
    /\ pc = "seq"
    /\ gpio = "acquired" /\ calib = NoCalib /\ calc = NoCalc /\ load = 0
    /\ force_history = <<>>
    /\ prior \in SeqPriors
    /\ last_kick_time = prior
    /\ cooldown \in SeqCooldowns
    /\ weight_kg = 0 /\ force_newtons = 0 /\ impact = FALSE
    /\ kick_weight = 0 /\ kick_force = 0
    /\ speed = 0 /\ max_fsr_percent = <<0, 1>> /\ accuracy = "" /\ kick_type = ""
    /\ payload = NoPayload
    /\ connected = TRUE
    /\ reply = NoReply
    /\ now = BootTime
    /\ interrupted = FALSE
    /\ fire_times = <<>>
    /\ ev = NoEvent
    /\ errs = {}
    /\ seq = <<>> /\ times = <<>> /\ outs = <<>>

\* lines 302-308 on the next sample g, taken at clock reading now; the next
\* sample follows dt ticks later
SeqFeed ==
    /\ pc = "seq"
    /\ Len(seq) < MaxLen
    /\ \E g \in SeqGrams, dt \in SeqDts :
          LET r == read_load_cell_fast(TRUE, g)
              d == detect_impact(force_history, last_kick_time, now, r.weight_kg,
                                 cooldown)
          IN  /\ weight_kg' = r.weight_kg
              /\ force_newtons' = r.force_newtons
              /\ force_history' = d.force_history
              /\ last_kick_time' = d.last_kick_time
              /\ impact' = d.ret
              /\ kick_weight' = IF d.ret THEN r.weight_kg ELSE kick_weight
              /\ kick_force' = IF d.ret THEN r.force_newtons ELSE kick_force
              /\ fire_times' = IF d.ret THEN Append(fire_times, now) ELSE fire_times
              /\ seq' = Append(seq, g)
              /\ times' = Append(times, now)
              /\ outs' = Append(outs, [ret |-> d.ret,
                                       kick_weight |-> IF d.ret THEN r.weight_kg ELSE 0,
                                       kick_force |-> IF d.ret THEN r.force_newtons ELSE 0])
              /\ now' = now + dt
    /\ UNCHANGED <<pc, enrich, connected, reply, interrupted, ev, errs, cooldown, prior,
                   gpio, side>>

SeqNext == SeqFeed

SeqSpec == SeqInit /\ [][SeqNext]_vars

(* ------------------- the pure functions on their own ------------------- *)

\* Weights handed to determine_kick_type (1e-5 kg): the band edges 4, 5 and
\* 6.5 kg, their neighbours, and values far from them.
KickWeights == {-100, 0, 399000, 400000, 499900, 500000, 650000, 650001, 900000}
\* Percentages handed to determine_accuracy (fractions): 49.9, 49.95, 50, ...
Percents == {<<0, 1>>, <<499, 10>>, <<4995, 100>>, <<50, 1>>, <<501, 10>>, <<100, 1>>}
\* Arguments of fsr_percentage: raw values (fractions, halves included) below,
\* inside and above the range; ranges that are proper, empty and inverted.
FuncRaws == {<<n, d>> : n \in -3..14, d \in {1, 2}}
FuncMins == {-1, 0, 2, 10}
FuncMaxs == {-1, 0, 7, 10, 12}

FuncInit ==
    /\ pc = "func"
    /\ gpio = "acquired" /\ calib = NoCalib /\ calc = NoCalc /\ load = 0
    /\ force_history = <<>>
    /\ last_kick_time = 0
    /\ weight_kg = 0 /\ force_newtons = 0 /\ impact = FALSE
    /\ kick_weight = 0 /\ kick_force = 0
    /\ speed = 0 /\ max_fsr_percent = <<0, 1>> /\ accuracy = "" /\ kick_type = ""
    /\ payload = NoPayload
    /\ connected = TRUE
    /\ reply = NoReply
    /\ now = BootTime
    /\ interrupted = FALSE
    /\ fire_times = <<>>
    /\ ev = NoEvent
    /\ errs = {}
    /\ cooldown = KICK_COOLDOWN /\ prior = 0
    /\ seq = <<>> /\ times = <<>> /\ outs = <<>>

\* lines 326-327 on an arbitrary percentage and an arbitrary weight; each
\* application starts from a clean slate
Classify ==
    /\ pc = "func"
    /\ \E p \in Percents, w \in KickWeights :
          /\ max_fsr_percent' = p
          /\ kick_weight' = w
          /\ accuracy' = determine_accuracy(p)
          /\ kick_type' = determine_kick_type(w)
    /\ calc' = NoCalc
    /\ UNCHANGED <<pc, detector, weight_kg, force_newtons, impact, kick_force, speed,
                   payload, connected, reply, now, interrupted, fire_times, ev, errs,
                   seqvars, gpio, calib, load>>

\* lines 59-77 on arbitrary arguments, and once more on the result with the
\* range 0..100
Normalize ==
    /\ pc = "func"
    /\ \E raw \in FuncRaws, f_min \in FuncMins, f_max \in FuncMaxs :
          LET out == fsr_percentage_q(raw, f_min, f_max)
          IN  calc' = [raw |-> raw, f_min |-> f_min, f_max |-> f_max, out |-> out,
                       again |-> fsr_percentage_q(out, 0, 100)]
    /\ max_fsr_percent' = <<0, 1>> /\ accuracy' = ""
    /\ kick_weight' = 0 /\ kick_type' = ""
    /\ UNCHANGED <<pc, detector, weight_kg, force_newtons, impact, kick_force, speed,
                   payload, connected, reply, now, interrupted, fire_times, ev, errs,
                   seqvars, gpio, calib, load>>

FuncNext == Classify \/ Normalize

FuncSpec == FuncInit /\ [][FuncNext]_vars

(* ------------------------------- claims -------------------------------- *)

(* --------------------- the calibration at start-up --------------------- *)

\* The calibration file as main() finds it: absent, present but unreadable as
\* the expected JSON object, or written by an earlier calibration.
CalFiles ==
    {NoFile,
     [present |-> TRUE, valid |-> FALSE, offset |-> 0, scale_ratio |-> <<1, 1>>],
     [present |-> TRUE, valid |-> TRUE, offset |-> 8000, scale_ratio |-> <<10500, 500>>]}
\* hx.get_raw_data_mean with no load, hx.get_data_mean with the known weight
\* on the sensor (counts), and the known weight typed in (grams)
CalOffsets == {7900, 8000, 8100}
CalReadings == {-10500, 0, 10500, 21000}
CalKnown == {-500, 0, 500, 1000}
\* The statement of calibrate_load_cell that raises, if any: the first
\* input(), hx.zero(), hx.get_raw_data_mean(), hx.get_data_mean(), float() of
\* the typed text, or the open() of the file for writing.
CalStages == {"none", "prompt", "zero", "offset", "reading", "known_text", "write"}

CalInit ==
    /\ pc = "boot"
    /\ gpio = "acquired"
    /\ \E f \in CalFiles : calib = [NoCalib EXCEPT !.file = f]
    /\ calc = NoCalc /\ load = 0
    /\ force_history = <<>>
    /\ last_kick_time = 0
    /\ weight_kg = 0 /\ force_newtons = 0 /\ impact = FALSE
    /\ kick_weight = 0 /\ kick_force = 0
    /\ speed = 0 /\ max_fsr_percent = <<0, 1>> /\ accuracy = "" /\ kick_type = ""
    /\ payload = NoPayload
    /\ connected = FALSE
    /\ reply = NoReply
    /\ now = BootTime
    /\ interrupted = FALSE
    /\ fire_times = <<>>
    /\ ev = NoEvent
    /\ errs = {}
    /\ cooldown = KICK_COOLDOWN /\ prior = 0
    /\ seq = <<>> /\ times = <<>> /\ outs = <<>>

\* lines 80-99, called at line 265: a readable file sets ratio and offset of
\* the HX711 and main() goes on to the scan; otherwise the function returns
\* False (no file, or an exception caught at line 97) and main() calibrates
LoadCalibration ==
    /\ pc = "boot"
    /\ \E open_ok \in BOOLEAN :
          IF calib.file.present /\ calib.file.valid /\ open_ok
          THEN /\ calib' = [calib EXCEPT !.hx_ratio_set = TRUE,
                                         !.hx_ratio = calib.file.scale_ratio,
                                         !.hx_offset_set = TRUE]
               /\ pc' = "scan"
          ELSE /\ calib' = calib
               /\ pc' = "calibrate"
    /\ UNCHANGED <<detector, locals, enrich, connected, reply, now, interrupted,
                   fire_times, ev, errs, seqvars, gpio, calc, load>>

\* lines 102-137, called at line 266: the dialogue runs up to the statement
\* that raises, if one does; the handler of line 136 prints and the function
\* returns.  A known weight of 0 raises ZeroDivisionError at line 123.
CalibrateLoadCell ==
    /\ pc = "calibrate"
    /\ \E fail \in CalStages, offset \in CalOffsets, reading \in CalReadings,
          known \in CalKnown :
          LET zeroed == fail \notin {"prompt", "zero"}
              have_reading == zeroed /\ fail \notin {"offset", "reading"}
              have_known == have_reading /\ fail # "known_text"
              have_ratio == have_known /\ known # 0
              saved == have_ratio /\ fail # "write"
              ratio == <<reading, known>>
          IN  calib' =
                 [file |-> IF saved
                           THEN [present |-> TRUE, valid |-> TRUE,
                                 offset |-> offset, scale_ratio |-> ratio]
                           ELSE calib.file,
                  hx_offset_set |-> zeroed,
                  hx_ratio_set |-> have_ratio,
                  hx_ratio |-> IF have_ratio THEN ratio ELSE calib.hx_ratio,
                  ran |-> TRUE,
                  wrote |-> saved,
                  provider_error |-> fail \in {"zero", "offset", "reading"},
                  known_given |-> have_known,
                  known |-> IF have_known THEN known ELSE 0,
                  reading |-> IF have_reading THEN reading ELSE 0]
    /\ pc' = "scan"
    /\ UNCHANGED <<detector, locals, enrich, connected, reply, now, interrupted,
                   fire_times, ev, errs, seqvars, gpio, calc, load>>

CalNext == LoadCalibration \/ CalibrateLoadCell

CalSpec == CalInit /\ [][CalNext]_vars

(* ------------------- a load held constant on the cell ------------------ *)

\* Loads resting on the cell (grams): below, at and above the threshold.
HeldLoads == {3000, 4000, 4500, 6000}

HoldInit ==
    /\ pc = "hold"
    /\ gpio = "acquired" /\ calib = NoCalib /\ calc = NoCalc
    /\ load \in HeldLoads
    /\ force_history = <<>>
    /\ last_kick_time = 0
    /\ weight_kg = 0 /\ force_newtons = 0 /\ impact = FALSE
    /\ kick_weight = 0 /\ kick_force = 0
    /\ speed = 0 /\ max_fsr_percent = <<0, 1>> /\ accuracy = "" /\ kick_type = ""
    /\ payload = NoPayload
    /\ connected = TRUE
    /\ reply = NoReply
    /\ now = BootTime
    /\ interrupted = FALSE
    /\ fire_times = <<>>
    /\ ev = NoEvent
    /\ errs = {}
    /\ cooldown = KICK_COOLDOWN /\ prior = 0
    /\ seq = <<>> /\ times = <<>> /\ outs = <<>>

\* lines 302-308 on the next polling cycle while the load does not change:
\* hx.get_weight_mean returns the load or raises (lines 170-178); seq keeps
\* what the read gave, -1 for a failed read
HoldSample ==
    /\ pc = "hold"
    /\ Len(seq) < MaxLen
    /\ \E hx_ok \in BOOLEAN, dt \in SeqDts :
          LET r == read_load_cell_fast(hx_ok, load)
              d == detect_impact(force_history, last_kick_time, now, r.weight_kg,
                                 cooldown)
          IN  /\ weight_kg' = r.weight_kg
              /\ force_newtons' = r.force_newtons
              /\ force_history' = d.force_history
              /\ last_kick_time' = d.last_kick_time
              /\ impact' = d.ret
              /\ kick_weight' = IF d.ret THEN r.weight_kg ELSE kick_weight
              /\ kick_force' = IF d.ret THEN r.force_newtons ELSE kick_force
              /\ fire_times' = IF d.ret THEN Append(fire_times, now) ELSE fire_times
              /\ seq' = Append(seq, IF hx_ok THEN load ELSE -1)
              /\ times' = Append(times, now)
              /\ outs' = Append(outs, [ret |-> d.ret,
                                       kick_weight |-> IF d.ret THEN r.weight_kg ELSE 0,
                                       kick_force |-> IF d.ret THEN r.force_newtons ELSE 0])
              /\ errs' = IF hx_ok THEN errs ELSE errs \cup {1}
              /\ now' = now + dt
    /\ UNCHANGED <<pc, enrich, connected, reply, interrupted, ev, cooldown, prior,
                   gpio, side>>

HoldNext == HoldSample

HoldSpec == HoldInit /\ [][HoldNext]_vars

\* The operations of one event, in the order of lines 305-360.
EventOrder == <<"fire", "speed", "fsr", "stamp", "upload">>
IsPrefix(s, t) == Len(s) <= Len(t) /\ \A i \in 1..Len(s) : s[i] = t[i]
\* The upload attempt of the last event was made.
EventDone == ev.log # <<>> /\ ev.log[Len(ev.log)] = "upload"
\* Positions of the reconnect loop (lines 269-289 and 369-372).
OuterPcs == {"scan", "connect", "retry_sleep", "error_sleep"}

\* C1: any two calls of detect_impact that returned True lie at least
\* KICK_COOLDOWN apart, across disconnects, failed reads and failed uploads.
C1_FiresCooldownApart ==
    \A i, j \in DOMAIN fire_times :
        i < j => fire_times[j] - fire_times[i] >= KICK_COOLDOWN

\* Two fires exactly one cooldown apart, in a run that met every error category.
C1_Witness ==
    /\ Len(fire_times) >= 2
    /\ fire_times[2] - fire_times[1] = KICK_COOLDOWN
    /\ errs = {1, 2, 3, 4}

\* C2: detect_impact(w) returns True iff, with w appended, the history holds
\* at least 2 samples, w >= threshold, w > the previous sample and the time
\* since the last fire is >= cooldown; last_kick_time becomes the current time
\* exactly when it returns True and is left alone otherwise.
C2_FireIff ==
    [][ (pc = "detect" /\ pc' \in {"speed", "sleep"}) =>
          LET w == weight_kg
              h == force_history'
          IN  /\ h[Len(h)] = w
              /\ impact' <=> ( /\ Len(h) >= 2
                               /\ w >= KICK_THRESHOLD_KG
                               /\ w > h[Len(h) - 1]
                               /\ now - last_kick_time >= KICK_COOLDOWN )
              /\ (pc' = "speed") <=> impact'
              /\ last_kick_time' = IF impact' THEN now ELSE last_kick_time
      ]_vars

\* A call that fired on a sample exactly at the threshold, exactly one cooldown
\* after the previous fire.
C2_Witness ==
    /\ pc = "speed"
    /\ impact
    /\ weight_kg = KICK_THRESHOLD_KG
    /\ last_kick_time = now
    /\ Len(fire_times) >= 2
    /\ fire_times[Len(fire_times)] - fire_times[Len(fire_times) - 1] = KICK_COOLDOWN

StrictlyDecreasing(s) == \A i \in 1..(Len(s) - 1) : s[i] > s[i + 1]
Flat(s) == \A i \in 1..(Len(s) - 1) : s[i] = s[i + 1]
BelowThreshold(s) == \A i \in 1..Len(s) : s[i] * 100 < KICK_THRESHOLD_KG

\* C3: from an empty history, no sample of a strictly decreasing, flat or
\* entirely sub-threshold weight sequence fires, whatever the times are.
C3_NoFireOnDecreasingFlatOrLow ==
    (StrictlyDecreasing(seq) \/ Flat(seq) \/ BelowThreshold(seq))
        => \A i \in DOMAIN outs : ~outs[i].ret

\* A flat sequence above the threshold, fed with the cooldown long over.
C3_Witness ==
    /\ Len(seq) >= 3
    /\ Flat(seq)
    /\ seq[1] * 100 >= KICK_THRESHOLD_KG
    /\ prior = 0
    /\ \A i \in DOMAIN outs : ~outs[i].ret

\* The scenario of C4: the five readings, 50 ms apart, the prior detection
\* 10 s before the first sample; the cooldown is 2.0 s (40 ticks) as in the
\* scenario, or the program's KICK_COOLDOWN.
C4_Scenario ==
    /\ seq = <<0, 0, 2000, 4500, 3000>>
    /\ \A i \in 1..4 : times[i + 1] - times[i] = 1
    /\ cooldown \in {40, KICK_COOLDOWN}
    /\ prior = times[1] - 200

\* C4: the scenario fires exactly once, on the sample reading 4.5 kg, and
\* captures weight 4.5 kg and force 4.5 * 9.81 = 44.145 N.
C4_ScenarioFiresOnce ==
    C4_Scenario =>
        /\ \A i \in {1, 2, 3, 5} : ~outs[i].ret
        /\ outs[4] = [ret |-> TRUE, kick_weight |-> 450000, kick_force |-> 441450000]
        /\ fire_times = <<times[4]>>

C4_Witness == C4_Scenario /\ cooldown = 40 /\ Len(outs) = 5 /\ outs[4].ret

\* C5: the weight classified and the force written to the record are those of
\* the sample that was passed to detect_impact and fired; the load cell is not
\* read again between the fire and the construction of the record.
C5_RecordUsesFiringSample ==
    ev.log # <<>> =>
        /\ ev.hist[Len(ev.hist)] = ev.w
        /\ ev.f = ev.w * 981
        /\ \A i \in DOMAIN ev.log : ev.log[i] # "sample"
        /\ kick_weight = ev.w /\ kick_force = ev.f
        /\ Len(ev.log) >= 3 => kick_type = determine_kick_type(ev.w)
        /\ Len(ev.log) >= 4 => payload.force_of_kick_in_newton = ev.f

\* A record built for a 4.5 kg kick while the load cell could read otherwise.
C5_Witness ==
    /\ pc = "upload"
    /\ ev.w = 450000
    /\ payload.force_of_kick_in_newton = 441450000
    /\ kick_type = "Light Kick"

\* C6: the speed read, the FSR read and the timestamps of an event come after
\* its fire and before the upload, in this order, and no other sample or
\* detect_impact call falls between the fire and the end of the upload.
C6_EnrichmentInOrder ==
    /\ IsPrefix(ev.log, EventOrder)
    /\ pc \in {"speed", "speed_wait"} => ev.log = <<"fire">>
    /\ pc = "fsr" => ev.log = <<"fire", "speed">>
    /\ pc = "stamp" => ev.log = <<"fire", "speed", "fsr">>
    /\ pc = "upload" =>
          /\ ev.log = <<"fire", "speed", "fsr", "stamp">>
          /\ payload.timestamp_utc >= ev.last
          /\ payload.timestamp_local >= ev.last
    /\ pc = "detect" => ev.log = <<>>

\* A second event that reached the upload, stamped later than its fire.
C6_Witness ==
    /\ pc = "upload"
    /\ Len(fire_times) = 2
    /\ payload.timestamp_utc > ev.last

\* C7: after a failed speed read the event goes on with speed = 0.0: the FSR
\* read, the classification and the timestamps follow, and one upload attempt
\* is made for a record whose speed is 0.0.
C7_SpeedFailureKeepsEvent ==
    ev.speed_failed =>
        /\ speed = 0
        /\ \/ pc = "fsr" /\ ev.log = <<"fire", "speed">>
           \/ /\ pc = "stamp" /\ ev.log = <<"fire", "speed", "fsr">>
              /\ accuracy \in {"lower accuracy", "higher accuracy"}
              /\ kick_type = determine_kick_type(ev.w)
           \/ /\ pc = "upload" /\ ev.log = <<"fire", "speed", "fsr", "stamp">>
              /\ payload.speed_of_kick_in_meters_per_second = 0
              /\ payload.kick_detection_state = "kick_detected"
           \/ /\ pc \in {"sleep", "poll"} \cup OuterPcs /\ ev.log = EventOrder
              /\ payload.speed_of_kick_in_meters_per_second = 0
              /\ payload.kick_detection_state = "kick_detected"
           \/ pc = "exited"

\* The upload attempt was made for an event whose speed read had failed.
C7_Witness ==
    /\ ev.speed_failed
    /\ pc = "sleep"
    /\ ev.log = EventOrder
    /\ payload.speed_of_kick_in_meters_per_second = 0
    /\ payload.force_of_kick_in_newton = ev.f

\* C8: an upload, failed or not, leaves force_history and last_kick_time as
\* they were right after the fire, returns to the polling loop, and is
\* attempted once.
C8_UploadLeavesDetector ==
    /\ [](EventDone =>
            /\ force_history = ev.hist
            /\ last_kick_time = ev.last
            /\ ev.log = EventOrder
            /\ pc \in {"sleep", "poll", "exited"} \cup OuterPcs)
    /\ [][ (pc = "upload" /\ pc' \notin {"upload", "exited"}) =>
              /\ pc' = "sleep"
              /\ UNCHANGED <<force_history, last_kick_time>> ]_vars

\* A failed upload behind, the detector still holding the fire's state.
C8_Witness ==
    /\ ev.status \in {"non200", "exception"}
    /\ pc = "sleep"
    /\ last_kick_time = ev.last
    /\ ev.last > 0

\* C9: after a fire the speed read always comes to an end, by an answer, an
\* error or a timeout, even if the peripheral never answers, and the loop
\* reaches its sleep after the upload attempt.  Stated for the link staying up.
C9_SpeedReadEnds ==
    (pc = "speed_wait" /\ connected) ~> (pc \in {"sleep", "exited"} \/ ~connected)

\* C10: no error of categories 1-4 ends main; the program stays in the
\* polling loop or the reconnect loop until an operator interrupt.
C10_OnlyInterruptExits ==
    /\ pc \in {"init", "adc_init", "crashed", "exited"} \cup MainPcs
    /\ pc = "exited" => interrupted
    /\ pc = "crashed" => errs = {}

\* Every error category was met and the program is polling.
C10_Witness ==
    /\ errs = {1, 2, 3, 4}
    /\ pc = "poll"
    /\ connected
    /\ ~interrupted

\* The program's own steps are taken as long as one is possible; the
\* environment (link, peripheral, clock, operator) owes nothing.
FairSpec == Spec /\ WF_vars(Program)

\* C11: once the liveness flag of the client is down, the polling loop leaves
\* at its next turn without another sample; the client block is left, and the
\* scan and a new connect come before any further sample or characteristic
\* read.
C11_FlagDownLeavesAndRediscovers ==
    [][/\ (pc = "poll" /\ ~connected /\ pc' # pc)
              => pc' \in {"scan", "error_sleep", "exited"}
       /\ (pc = "poll" /\ pc' = "detect") => connected
       /\ (pc = "speed" /\ pc' = "speed_wait") => connected
       /\ (~connected /\ connected') => (pc = "connect" /\ pc' = "poll")
       /\ (pc' = "connect" /\ pc # "connect") => pc = "scan"]_vars

\* The flag fell in mid-session, and the program is polling again on a new
\* connection.
C11_Witness ==
    /\ 5 \in errs
    /\ pc = "poll"
    /\ connected

\* C12: on every path by which the process ends after the GPIO lines were
\* acquired, the operator interrupt included, GPIO.cleanup has run.
C12_GpioReleasedOnExit ==
    pc \in {"exited", "crashed"} => gpio # "acquired"

\* C13: determine_kick_type puts every weight in exactly one category, by the
\* bands [4, 5) Light, [5, 6.5] Medium, (6.5, oo) Strong, anything else no
\* contact; 3.99 -> none, 4.0 and 4.999 -> Light, 5.0 and 6.5 -> Medium,
\* 6.50001 -> Strong.
C13_KickTypeBands ==
    kick_type # "" =>
        /\ kick_type \in {"Light Kick", "Medium Kick", "Strong Kick",
                          "No or very light contact"}
        /\ kick_type = "Light Kick" <=> (kick_weight >= 400000 /\ kick_weight < 500000)
        /\ kick_type = "Medium Kick" <=> (kick_weight >= 500000 /\ kick_weight <= 650000)
        /\ kick_type = "Strong Kick" <=> kick_weight > 650000
        /\ kick_type = "No or very light contact" <=> kick_weight < 400000
        /\ kick_weight = 399000 => kick_type = "No or very light contact"
        /\ kick_weight \in {400000, 499900} => kick_type = "Light Kick"
        /\ kick_weight \in {500000, 650000} => kick_type = "Medium Kick"
        /\ kick_weight = 650001 => kick_type = "Strong Kick"

\* A weight of exactly 6.5 kg was classified.
C13_Witness ==
    /\ pc = "func"
    /\ kick_weight = 650000
    /\ kick_type = "Medium Kick"

\* C14: determine_accuracy returns "lower accuracy" exactly for a percentage
\* >= 50.0 and "higher accuracy" otherwise (49.9 higher, 50.0 lower); the
\* result depends on the current argument only; the accuracy of every record
\* put together for the upload is one of the two strings.
C14_AccuracyBySingleThreshold ==
    LET Expected(p) == IF p[1] >= 50 * p[2] THEN "lower accuracy"
                       ELSE "higher accuracy"
    IN  /\ \A p \in Percents : determine_accuracy(p) = Expected(p)
        /\ determine_accuracy(<<499, 10>>) = "higher accuracy"
        /\ determine_accuracy(<<50, 1>>) = "lower accuracy"
        /\ accuracy # "" => accuracy = Expected(max_fsr_percent)
        /\ payload # NoPayload =>
              /\ payload.accuracy \in {"lower accuracy", "higher accuracy"}
              /\ payload.accuracy = Expected(payload.pressure_at_edges_in_percentage)

\* The second kick of a run presses the edge sensors to exactly 50 %: its
\* record says "lower accuracy".
C14_Witness ==
    /\ pc = "upload"
    /\ Len(fire_times) = 2
    /\ FracEq(payload.pressure_at_edges_in_percentage, <<50, 1>>)
    /\ payload.accuracy = "lower accuracy"

\* C15: fsr_percentage(raw, min, max) returns a value for all arguments, in
\* [0, 100]: 0 when max <= min; otherwise 0 for raw <= min, 100 for
\* raw >= max, and (raw - min) / (max - min) * 100 in between.
C15_FsrPercentageTotalAndClamped ==
    LET a == calc.raw[1]
        b == calc.raw[2]
        n == calc.out[1]
        d == calc.out[2]
        lo == calc.f_min
        hi == calc.f_max
    IN  /\ d > 0
        /\ 0 <= n /\ n <= 100 * d
        /\ hi <= lo => n = 0
        /\ (hi > lo /\ a <= lo * b) => n = 0
        /\ (hi > lo /\ a >= hi * b) => n = 100 * d
        /\ (hi > lo /\ lo * b < a /\ a < hi * b)
              => n * (hi - lo) * b = (a - lo * b) * 100 * d

\* 3.5 in the range 2..12 came out as 15 %.
C15_Witness ==
    /\ calc.raw = <<7, 2>>
    /\ calc.f_min = 2
    /\ calc.f_max = 12
    /\ FracEq(calc.out, <<15, 1>>)

\* C16: applying fsr_percentage to its own result with the range 0..100 gives
\* the result again: fsr_percentage(fsr_percentage(raw, min, max), 0, 100) =
\* fsr_percentage(raw, min, max) for all raw, min, max.
C16_FsrPercentageIdempotent ==
    /\ calc.out[2] > 0
    /\ calc.again[2] > 0
    /\ FracEq(calc.again, calc.out)

\* 2.5 in the range 0..7 came out as 250/7 %, and so did the second
\* application.
C16_Witness ==
    /\ calc.raw = <<5, 2>>
    /\ calc.f_min = 0
    /\ calc.f_max = 7
    /\ FracEq(calc.again, <<250, 7>>)

\* C17: when the known weight entered is <= 0 or a reading provider fails,
\* calibrate_load_cell returns without raising, applies no scale ratio and
\* writes no record; no calibration file holds a scale ratio that is zero or
\* that was derived from a non-positive known weight.
C17_CalibrationRejectsBadInput ==
    /\ pc \in {"boot", "calibrate", "scan"}
    /\ (calib.ran /\ (calib.provider_error \/ (calib.known_given /\ calib.known <= 0)))
          => (~calib.hx_ratio_set /\ ~calib.wrote)
    /\ (calib.file.present /\ calib.file.valid)
          => (calib.file.scale_ratio[1] # 0 /\ calib.file.scale_ratio[2] > 0)

\* C18: every peripheral connectivity error (device not found, scan or
\* connect failure, mid-session disconnect seen by the liveness flag or by an
\* exception) goes back to the outer loop through the fixed 5 s delay: after
\* the first scan, a scan starts only out of one of the two 5 s sleeps; and
\* the program never gives up scanning.
C18_RescanThroughBackoff ==
    [][/\ (pc' = "scan" /\ pc # "scan") => pc \in {"boot", "retry_sleep", "error_sleep"}
       /\ (pc \in OuterPcs \cup InnerPcs /\ pc' \notin OuterPcs \cup InnerPcs)
              => pc' = "exited"]_vars

\* C19: while the load on the cell is held constant at or above the
\* threshold, no polling cycle fires, also when the read of some of the
\* cycles fails and is handled as a transient read error.
C19_HeldLoadNeverFires ==
    (pc = "hold" /\ load * 100 >= KICK_THRESHOLD_KG)
        => \A i \in 1..Len(outs) : ~outs[i].ret

\* C20, as stated: while the program is scanning, backing off or has no
\* connected client, no sample is read, detect_impact is not called
\* (force_history and last_kick_time stay as they are), and no kick record is
\* assembled or uploaded; a reconnect does not reset the detector.
C20_NothingWithoutConnection ==
    [][(pc \in OuterPcs \/ ~connected) =>
          /\ UNCHANGED <<force_history, last_kick_time>>
          /\ ~(pc = "poll" /\ pc' = "detect")
          /\ ~(pc = "stamp" /\ pc' = "upload")
          /\ ~(pc = "upload" /\ pc' = "sleep")]_vars

\* C20, amended: while the program is scanning, backing off or the liveness
\* flag is down, no sample is read and detect_impact is not called
\* (force_history and last_kick_time stay as they are); while scanning or
\* backing off no record is assembled or uploaded; with the flag down a record
\* is assembled or uploaded only to finish the event of a fire that came
\* while the flag was up; a reconnect does not reset the detector.
C20_SamplingOnlyWhileConnected ==
    [][/\ (pc \in OuterPcs \/ ~connected) =>
             /\ UNCHANGED <<force_history, last_kick_time>>
             /\ ~(pc = "poll" /\ pc' = "detect")
       /\ pc \in OuterPcs => UNCHANGED <<payload, ev, fire_times>>
       /\ (~connected /\ pc \in {"stamp", "upload"} /\ pc' \notin {pc, "exited"}) =>
             /\ EventOpen
             /\ 5 \in errs
             /\ ev.hist = force_history
             /\ ev.last = last_kick_time
       /\ (pc = "connect" /\ pc' = "poll") =>
             UNCHANGED <<force_history, last_kick_time>>]_vars

\* The link went down during the speed read of an event; the record of the
\* event is put together and about to be uploaded with the flag down.
C20_Witness ==
    /\ pc = "upload"
    /\ ~connected
    /\ payload # NoPayload
    /\ payload.force_of_kick_in_newton = ev.f
    /\ force_history # <<>>

=============================================================================
